---- MODULE Spec2Model ----
(***************************************************************************)
(* Model of src/src/components/DashboardVisualization.tsx: the load cycle  *)
(* of the dashboard (useEffect/loadData) and the two KPI aggregators       *)
(* calculateEdrKpis and calculateVulnKpis.                                 *)
(*                                                                         *)
(* JavaScript values are tagged records [t, s, n]; JavaScript numbers that *)
(* are results of a division are exact fractions [n, d], with 0/0 standing *)
(* for NaN and k/0 (k > 0) for Infinity.  Timestamps are counted in hours. *)
(***************************************************************************)
EXTENDS Integers, Sequences, FiniteSets, TLC

VARIABLES pc, edrCsv, vulnCsv, edrResult, vulnResult, edrData, vulnData,
          edrKpis, vulnKpis, loading, failed, errorLog, fetches, calcs

vars == <<pc, edrCsv, vulnCsv, edrResult, vulnResult, edrData, vulnData,
          edrKpis, vulnKpis, loading, failed, errorLog, fetches, calcs>>

\* Longest record list drawn for a dataset.
MaxRecords == 3

(***************************************************************************)
(* JavaScript values held by the fields of a parsed row.                   *)
(***************************************************************************)
Str(s) == [t |-> "string", s |-> s, n |-> 0]

Num(k) == [t |-> "number", s |-> "", n |-> k]

Bool(b) == [t |-> "boolean", s |-> "", n |-> IF b THEN 1 ELSE 0]

Null == [t |-> "null", s |-> "", n |-> 0]

\* ToBoolean, as applied by `x && ...` and `x || ...`.
Truthy(v) ==
  CASE v.t = "string" -> v.s # ""
    [] v.t = "number" -> v.n # 0
    [] v.t = "boolean" -> v.n = 1
    [] OTHER -> FALSE

\* v === "literal"
StrictEquals(v, lit) == v.t = "string" /\ v.s = lit

\* The numeric cells of the modelled files and the numbers they denote.
CellNumber(cell) ==
  CASE cell = "0" -> 0
    [] cell = "1" -> 1
    [] cell = "2" -> 2
    [] cell = "3" -> 3
    [] cell = "4" -> 4

NumericCells == {"0", "1", "2", "3", "4"}

\* Number-to-string for the numbers above (a number used as a property key).
NumberToString(k) ==
  CASE k = 0 -> "0"
    [] k = 1 -> "1"
    [] k = 2 -> "2"
    [] k = 3 -> "3"
    [] k = 4 -> "4"

\* Papa.parse's dynamicTyping on one cell: booleans and numbers are
\* converted, an empty cell becomes null, anything else stays a string.
DynamicTyping(cell) ==
  CASE cell \in {"true", "TRUE"} -> Bool(TRUE)
    [] cell \in {"false", "FALSE"} -> Bool(FALSE)
    [] cell \in NumericCells -> Num(CellNumber(cell))
    [] cell = "" -> Null
    [] OTHER -> Str(cell)

\* Papa.parse(text, {header: true, skipEmptyLines: true, dynamicTyping: true}).data
\* on a file given as its rows of cells keyed by the header's field names.
PapaParse(csv) ==
  [i \in 1..Len(csv) |-> [f \in DOMAIN csv[i] |-> DynamicTyping(csv[i][f])]]

(***************************************************************************)
(* Numbers produced by a division.                                         *)
(***************************************************************************)
Zero == [n |-> 0, d |-> 1]

NaN == [n |-> 0, d |-> 0]

\* (a / b) * 100
Percent(a, b) == [n |-> 100 * a, d |-> b]

IsNaN(r) == r.d = 0 /\ r.n = 0

IsFinite(r) == r.d # 0

\* r == q on numbers (false when either is NaN)
NumEq(r, q) == IsFinite(r) /\ IsFinite(q) /\ r.n * q.d = q.n * r.d

\* r < q on numbers with d >= 0 (false when either is NaN)
NumLess(r, q) == ~IsNaN(r) /\ ~IsNaN(q) /\ r.n * q.d < q.n * r.d

(***************************************************************************)
(* Grouped counting: acc[key] = (acc[key] || 0) + 1 on an object literal.  *)
(* A CountObject is a function from its own property names to slots; a     *)
(* slot is a number or a string (k = "number" / "string").                 *)
(***************************************************************************)
EmptyObject == [key \in {} |-> [k |-> "number", v |-> 0]]

\* Property names every object literal inherits from Object.prototype.
ObjectPrototypeKeys ==
  {"__proto__", "constructor", "hasOwnProperty", "isPrototypeOf",
   "propertyIsEnumerable", "toLocaleString", "toString", "valueOf"}

\* The property key a field value is converted to by acc[value].
ToPropertyKey(v) ==
  CASE v.t = "string" -> v.s
    [] v.t = "number" -> NumberToString(v.n)
    [] v.t = "boolean" -> IF v.n = 1 THEN "true" ELSE "false"
    [] OTHER -> "null"

\* acc[key]: an own property, else what Object.prototype holds (an object or
\* a function), else undefined.
GetProperty(acc, key) ==
  IF key \in DOMAIN acc THEN acc[key]
  ELSE IF key \in ObjectPrototypeKeys THEN [k |-> "object", v |-> 0]
  ELSE [k |-> "undefined", v |-> 0]

\* (cur || 0) + 1: a number is incremented, undefined counts from 0, and an
\* object or a string is concatenated with "1" into a string.
OrZeroPlusOne(cur) ==
  CASE cur.k = "number" -> [k |-> "number", v |-> cur.v + 1]
    [] cur.k = "undefined" -> [k |-> "number", v |-> 1]
    [] OTHER -> [k |-> "string", v |-> 0]

\* acc[key] = val: the __proto__ setter ignores a value that is no object;
\* any other key becomes (or updates) an own property.
SetProperty(acc, key, val) ==
  IF key = "__proto__" THEN acc ELSE (key :> val) @@ acc

\* One step of the reduce callback shared by the six count helpers.
CountStep(acc, v) ==
  SetProperty(acc, ToPropertyKey(v),
              OrZeroPlusOne(GetProperty(acc, ToPropertyKey(v))))

RECURSIVE CountBy(_, _)
\* data.reduce((acc, r) => { acc[r[field]] = (acc[r[field]] || 0) + 1; return acc }, {})
CountBy(data, field) ==
  IF data = <<>> THEN EmptyObject
  ELSE CountStep(CountBy(SubSeq(data, 1, Len(data) - 1), field),
                 data[Len(data)][field])

calculateSeverityCounts(data) == CountBy(data, "Severity")

calculateAlertTypeCounts(data) == CountBy(data, "AlertType")

calculateStatusCounts(data) == CountBy(data, "Status")

calculateVulnSeverityCounts(data) == CountBy(data, "Severity")

calculateVulnStatusCounts(data) == CountBy(data, "Status")

calculateSourceCounts(data) == CountBy(data, "DetectionSource")

\* (counts[key] / total) * 100: a string that is no numeral divides to NaN.
SlotPercent(slot, total) ==
  IF slot.k = "number" THEN Percent(slot.v, total) ELSE NaN

\* Object.keys(counts).map(key => ({name, value, percentage})); the order of
\* the entries (insertion order) is not kept.
ChartData(counts, total) ==
  {[name |-> key, value |-> counts[key],
    percentage |-> SlotPercent(counts[key], total)] : key \in DOMAIN counts}

(***************************************************************************)
(* calculateEdrKpis; data.filter(P).length is Len(SelectSeq(data, P)).     *)
(***************************************************************************)
IsCriticalAlert(alert) == StrictEquals(alert.Severity, "Critical")

\* Mutant of criticalRate: the severity test inverted (!== for ===).
criticalRate_Inverted(data) ==
  Percent(Len(data) - Len(SelectSeq(data, IsCriticalAlert)), Len(data))

criticalRate(data) == Percent(Len(SelectSeq(data, IsCriticalAlert)), Len(data))

HasIoC(alert) ==
  /\ Truthy(alert.IOCType)
  /\ ~StrictEquals(alert.IOCType, "None")
  /\ ~StrictEquals(alert.IOCType, "")

iocDetectionRate(data) == Percent(Len(SelectSeq(data, HasIoC)), Len(data))

IsNetworkConnection(alert) == StrictEquals(alert.AlertType, "Network Connection")

IsSuspiciousConnection(alert) ==
  /\ StrictEquals(alert.AlertType, "Network Connection")
  /\ (StrictEquals(alert.Severity, "Critical") \/ StrictEquals(alert.Severity, "High"))

\* Mutant of suspiciousConnectionRate: divided by the number of all alerts.
suspiciousConnectionRate_OverTotal(data) ==
  IF Len(data) # 0
  THEN Percent(Len(SelectSeq(data, IsSuspiciousConnection)), Len(data))
  ELSE Zero

suspiciousConnectionRate(data) ==
  IF Len(SelectSeq(data, IsNetworkConnection)) # 0
  THEN Percent(Len(SelectSeq(data, IsSuspiciousConnection)),
               Len(SelectSeq(data, IsNetworkConnection)))
  ELSE Zero

\* [...new Set(data.map(alert => alert.Hostname))].length
uniqueEndpoints(data) == Cardinality({data[i].Hostname : i \in 1..Len(data)})

\* The object handed to setEdrKpis.
calculateEdrKpis(data) ==
  [totalAlerts |-> Len(data),
   criticalRate |-> criticalRate(data),
   iocDetectionRate |-> iocDetectionRate(data),
   severityData |-> ChartData(calculateSeverityCounts(data), Len(data)),
   alertTypeData |-> ChartData(calculateAlertTypeCounts(data), Len(data)),
   suspiciousConnectionRate |-> suspiciousConnectionRate(data),
   uniqueEndpoints |-> uniqueEndpoints(data),
   statusData |-> ChartData(calculateStatusCounts(data), Len(data))]

(***************************************************************************)
(* calculateVulnKpis                                                       *)
(***************************************************************************)
\* (1000 * 60 * 60 * 24) milliseconds, in the model's unit of one hour.
HoursPerDay == 24

IsResolved(vuln) == StrictEquals(vuln.Status, "Resolved")

remediationRate(data) == Percent(Len(SelectSeq(data, IsResolved)), Len(data))

HasBothDates(vuln) ==
  /\ StrictEquals(vuln.Status, "Resolved")
  /\ Truthy(vuln.PatchAppliedDate)
  /\ Truthy(vuln.DetectionDate)

resolvedVulns(data) == SelectSeq(data, HasBothDates)

\* new Date(value).getTime() for the date strings of the modelled files,
\* in hours since 2024-01-01T00:00Z.
DateGetTime(v) ==
  CASE v.s = "2024-01-01" -> 0
    [] v.s = "2024-01-02" -> 24
    [] v.s = "2024-01-03" -> 48
    [] v.s = "2024-01-05" -> 96

timeDiff(vuln) == DateGetTime(vuln.PatchAppliedDate) - DateGetTime(vuln.DetectionDate)

RECURSIVE SumTimeDiff(_)
\* The forEach loop adding up timeDiff; each daysDiff is timeDiff / HoursPerDay.
SumTimeDiff(vulns) ==
  IF vulns = <<>> THEN 0
  ELSE SumTimeDiff(SubSeq(vulns, 1, Len(vulns) - 1)) + timeDiff(vulns[Len(vulns)])

totalRemediationTime(data) == [n |-> SumTimeDiff(resolvedVulns(data)), d |-> HoursPerDay]

\* Mutant of avgRemediationTime: divided by the number of all resolved
\* records, dated or not.
avgRemediationTime_AllResolved(data) ==
  IF Len(resolvedVulns(data)) > 0
  THEN [n |-> totalRemediationTime(data).n,
        d |-> totalRemediationTime(data).d * Len(SelectSeq(data, IsResolved))]
  ELSE Zero

avgRemediationTime(data) ==
  IF Len(resolvedVulns(data)) > 0
  THEN [n |-> totalRemediationTime(data).n,
        d |-> totalRemediationTime(data).d * Len(resolvedVulns(data))]
  ELSE Zero

IsCriticalVuln(vuln) == StrictEquals(vuln.IsCritical, "Oui")

IsUnpatchableCritical(vuln) ==
  StrictEquals(vuln.IsCritical, "Oui") /\ StrictEquals(vuln.IsPatchable, "Non")

\* [...new Set(data.filter(IsCritical === "Oui").map(vuln => vuln.AssetID))]
criticalAssets(data) ==
  {data[i].AssetID : i \in {j \in 1..Len(data) : IsCriticalVuln(data[j])}}

unpatchableCriticalAssets(data) ==
  {data[i].AssetID : i \in {j \in 1..Len(data) : IsUnpatchableCritical(data[j])}}

\* Mutant of criticalVulnerabilityRate: records counted, not distinct assets.
criticalVulnerabilityRate_PerRecord(data) ==
  IF Len(SelectSeq(data, IsCriticalVuln)) > 0
  THEN Percent(Len(SelectSeq(data, IsUnpatchableCritical)),
               Len(SelectSeq(data, IsCriticalVuln)))
  ELSE Zero

criticalVulnerabilityRate(data) ==
  IF Cardinality(criticalAssets(data)) > 0
  THEN Percent(Cardinality(unpatchableCriticalAssets(data)),
               Cardinality(criticalAssets(data)))
  ELSE Zero

\* actualDays <= (vuln.RecommendedTimeframe || Infinity), both sides in hours.
PatchedInTime(vuln) ==
  IF Truthy(vuln.RecommendedTimeframe)
  THEN timeDiff(vuln) <= vuln.RecommendedTimeframe.n * HoursPerDay
  ELSE TRUE

patchesInTime(data) == Len(SelectSeq(resolvedVulns(data), PatchedInTime))

patchesInTimeRate(data) ==
  IF Len(resolvedVulns(data)) > 0
  THEN Percent(patchesInTime(data), Len(resolvedVulns(data)))
  ELSE Zero

\* The object handed to setVulnKpis.
calculateVulnKpis(data) ==
  [totalVulnerabilities |-> Len(data),
   severityData |-> ChartData(calculateVulnSeverityCounts(data), Len(data)),
   statusData |-> ChartData(calculateVulnStatusCounts(data), Len(data)),
   sourceData |-> ChartData(calculateSourceCounts(data), Len(data)),
   remediationRate |-> remediationRate(data),
   avgRemediationTime |-> avgRemediationTime(data),
   criticalVulnerabilityRate |-> criticalVulnerabilityRate(data),
   patchesInTimeRate |-> patchesInTimeRate(data)]

(***************************************************************************)
(* Component state and the files served to it.                             *)
(***************************************************************************)
\* useState<EdrKpis>(...) initial value
DefaultEdrKpis ==
  [totalAlerts |-> 0,
   criticalRate |-> Zero,
   iocDetectionRate |-> Zero,
   severityData |-> {},
   alertTypeData |-> {},
   suspiciousConnectionRate |-> Zero,
   uniqueEndpoints |-> 0,
   statusData |-> {}]

\* useState<VulnKpis>(...) initial value
DefaultVulnKpis ==
  [totalVulnerabilities |-> 0,
   severityData |-> {},
   statusData |-> {},
   sourceData |-> {},
   remediationRate |-> Zero,
   avgRemediationTime |-> Zero,
   criticalVulnerabilityRate |-> Zero,
   patchesInTimeRate |-> Zero]

\* A row of edr_data.csv, as its cells.
EdrRow(sev, ioc, type, status, host) ==
  [Severity |-> sev, IOCType |-> ioc, AlertType |-> type, Status |-> status,
   Hostname |-> host]

\* A row of vulnerabilities_data.csv, as its cells.
VulnRow(sev, status, source, det, patch, crit, patchable, asset, tf) ==
  [Severity |-> sev, Status |-> status, DetectionSource |-> source,
   DetectionDate |-> det, PatchAppliedDate |-> patch, IsCritical |-> crit,
   IsPatchable |-> patchable, AssetID |-> asset, RecommendedTimeframe |-> tf]

\* Rows drawn for edr_data.csv: severities and alert types, IoC cells
\* (text, blank, "None", and cells dynamicTyping converts), blank cells,
\* labels that name a property of Object.prototype and the label "null".
EdrRows ==
  {EdrRow(s, "Hash", a, "Open", "host-1") :
     s \in {"Critical", "High", "Low"}, a \in {"Network Connection", "Malware"}}
  \cup {EdrRow("Low", i, "Malware", "Closed", "host-2") :
          i \in {"None", "", "0", "false", "IP"}}
  \cup {EdrRow("__proto__", "Hash", "Malware", "Open", "host-1"),
        EdrRow("Low", "Hash", "constructor", "Open", "host-1"),
        EdrRow("", "Hash", "Malware", "", "host-1"),
        EdrRow("null", "Hash", "Malware", "Open", "host-1")}

\* Rows drawn for vulnerabilities_data.csv: resolved records with and without
\* dates and timeframes, an open record with both dates, critical and
\* patchable flags over two assets, blank cells and prototype labels.
VulnRows ==
  {VulnRow("High", "Resolved", "Scanner", "2024-01-01", p, "Non", "Oui", "A1", tf) :
     p \in {"2024-01-03", "2024-01-05"}, tf \in {"", "0", "3"}}
  \cup {VulnRow("High", "Resolved", "Scanner", "", "2024-01-03", "Non", "Oui", "A1", ""),
        VulnRow("High", "Resolved", "Scanner", "2024-01-01", "", "Non", "Oui", "A1", "3"),
        VulnRow("High", "Resolved", "Scanner", "2024-01-02", "2024-01-03", "Non", "Oui", "A1", "1"),
        VulnRow("High", "Open", "Scanner", "2024-01-01", "2024-01-05", "Non", "Oui", "A1", "3")}
  \cup {VulnRow("Critical", "Open", "Pentest", "2024-01-01", "", "Oui", pa, a, "") :
          pa \in {"Oui", "Non"}, a \in {"A1", "A2"}}
  \cup {VulnRow("Critical", "Open", "Pentest", "2024-01-01", "", "Non", "Non", a, "") :
          a \in {"A1", "A2"}}
  \cup {VulnRow("__proto__", "Open", "Scanner", "2024-01-01", "", "Non", "Oui", "A1", ""),
        VulnRow("Low", "Open", "constructor", "2024-01-01", "", "Non", "Oui", "A1", ""),
        VulnRow("", "", "", "2024-01-01", "", "Non", "Oui", "A1", "")}

\* Rows drawn for the two files in the load cycle.
LoadEdrRows ==
  {EdrRow("Critical", "Hash", "Network Connection", "Open", "host-1"),
   EdrRow("Low", "None", "Malware", "Closed", "host-2")}

LoadVulnRows ==
  {VulnRow("High", "Resolved", "Scanner", "2024-01-01", "2024-01-03", "Oui", "Non", "A1", "3")}

\* Files of at most MaxRecords rows.
Files(rows) == UNION {[1..k -> rows] : k \in 0..MaxRecords}

\* State on mount: the useState initial values, nothing fetched yet.
Mounted(edrFile, vulnFile) ==
  /\ pc = "mounted"
  /\ edrCsv = edrFile
  /\ vulnCsv = vulnFile
  /\ edrResult = <<>>
  /\ vulnResult = <<>>
  /\ edrData = <<>>
  /\ vulnData = <<>>
  /\ edrKpis = DefaultEdrKpis
  /\ vulnKpis = DefaultVulnKpis
  /\ loading = TRUE
  /\ failed = "none"
  /\ errorLog = 0
  /\ fetches = [edr |-> 0, vuln |-> 0]
  /\ calcs = [edr |-> 0, vuln |-> 0]

Init == \E edrFile \in Files(LoadEdrRows), vulnFile \in Files(LoadVulnRows) :
          Mounted(edrFile, vulnFile)

\* useEffect(() => { ...; loadData(); }, []): loadData starts and issues the
\* first fetch.
Mount ==
  /\ pc = "mounted"
  /\ pc' = "awaitEdrFetch"
  /\ fetches' = [fetches EXCEPT !.edr = @ + 1]
  /\ UNCHANGED <<edrCsv, vulnCsv, edrResult, vulnResult, edrData, vulnData,
                 edrKpis, vulnKpis, loading, failed, errorLog, calcs>>

\* A rejected await: control passes to the catch block.
Reject(at, source) ==
  /\ pc = at
  /\ pc' = "catch"
  /\ failed' = source
  /\ UNCHANGED <<edrCsv, vulnCsv, edrResult, vulnResult, edrData, vulnData,
                 edrKpis, vulnKpis, loading, errorLog, fetches, calcs>>

\* await fetch('/public/edr_data.csv') resolves.
EdrFetchResolve ==
  /\ pc = "awaitEdrFetch"
  /\ pc' = "awaitEdrText"
  /\ UNCHANGED <<edrCsv, vulnCsv, edrResult, vulnResult, edrData, vulnData,
                 edrKpis, vulnKpis, loading, failed, errorLog, fetches, calcs>>

EdrFetchReject == Reject("awaitEdrFetch", "edr")

\* Mutant of EdrTextResolve: the alert summary is computed as soon as the
\* alert file is parsed, before the second fetch.
EdrTextResolve_ComputesEarly ==
  /\ pc = "awaitEdrText"
  /\ edrResult' = PapaParse(edrCsv)
  /\ edrKpis' = calculateEdrKpis(PapaParse(edrCsv))
  /\ fetches' = [fetches EXCEPT !.vuln = @ + 1]
  /\ pc' = "awaitVulnFetch"
  /\ UNCHANGED <<edrCsv, vulnCsv, vulnResult, edrData, vulnData,
                 vulnKpis, loading, failed, errorLog, calcs>>

\* await edrResponse.text() resolves; the text is parsed and the second
\* fetch is issued.
EdrTextResolve ==
  /\ pc = "awaitEdrText"
  /\ edrResult' = PapaParse(edrCsv)
  /\ fetches' = [fetches EXCEPT !.vuln = @ + 1]
  /\ pc' = "awaitVulnFetch"
  /\ UNCHANGED <<edrCsv, vulnCsv, vulnResult, edrData, vulnData,
                 edrKpis, vulnKpis, loading, failed, errorLog, calcs>>

EdrTextReject == Reject("awaitEdrText", "edr")

\* Mutant of VulnFetchResolve: the response's text is not awaited, and the
\* code after the parse runs on what has been read so far.
VulnFetchResolve_SkipsText ==
  /\ pc = "awaitVulnFetch"
  /\ pc' = "setData"
  /\ UNCHANGED <<edrCsv, vulnCsv, edrResult, vulnResult, edrData, vulnData,
                 edrKpis, vulnKpis, loading, failed, errorLog, fetches, calcs>>

\* await fetch('/public/vulnerabilities_data.csv') resolves.
VulnFetchResolve ==
  /\ pc = "awaitVulnFetch"
  /\ pc' = "awaitVulnText"
  /\ UNCHANGED <<edrCsv, vulnCsv, edrResult, vulnResult, edrData, vulnData,
                 edrKpis, vulnKpis, loading, failed, errorLog, fetches, calcs>>

VulnFetchReject == Reject("awaitVulnFetch", "vuln")

\* await vulnResponse.text() resolves; the text is parsed.
VulnTextResolve ==
  /\ pc = "awaitVulnText"
  /\ vulnResult' = PapaParse(vulnCsv)
  /\ pc' = "setData"
  /\ UNCHANGED <<edrCsv, vulnCsv, edrResult, edrData, vulnData,
                 edrKpis, vulnKpis, loading, failed, errorLog, fetches, calcs>>

VulnTextReject == Reject("awaitVulnText", "vuln")

\* setEdrData(edrResult.data); setVulnData(vulnResult.data)
SetData ==
  /\ pc = "setData"
  /\ edrData' = edrResult
  /\ vulnData' = vulnResult
  /\ pc' = "calcEdr"
  /\ UNCHANGED <<edrCsv, vulnCsv, edrResult, vulnResult,
                 edrKpis, vulnKpis, loading, failed, errorLog, fetches, calcs>>

\* calculateEdrKpis(edrResult.data), ending in setEdrKpis
CalcEdr ==
  /\ pc = "calcEdr"
  /\ edrKpis' = calculateEdrKpis(edrResult)
  /\ calcs' = [calcs EXCEPT !.edr = @ + 1]
  /\ pc' = "calcVuln"
  /\ UNCHANGED <<edrCsv, vulnCsv, edrResult, vulnResult, edrData, vulnData,
                 vulnKpis, loading, failed, errorLog, fetches>>

\* calculateVulnKpis(vulnResult.data), ending in setVulnKpis
CalcVuln ==
  /\ pc = "calcVuln"
  /\ vulnKpis' = calculateVulnKpis(vulnResult)
  /\ calcs' = [calcs EXCEPT !.vuln = @ + 1]
  /\ pc' = "setLoading"
  /\ UNCHANGED <<edrCsv, vulnCsv, edrResult, vulnResult, edrData, vulnData,
                 edrKpis, loading, failed, errorLog, fetches>>

\* Mutant of SetLoadingDone: the effect has no dependency array, so the
\* render caused by setLoading(false) runs it again.
SetLoadingDone_Rerun ==
  /\ pc = "setLoading"
  /\ loading' = FALSE
  /\ pc' = "mounted"
  /\ UNCHANGED <<edrCsv, vulnCsv, edrResult, vulnResult, edrData, vulnData,
                 edrKpis, vulnKpis, failed, errorLog, fetches, calcs>>

\* setLoading(false) at the end of the try block
SetLoadingDone ==
  /\ pc = "setLoading"
  /\ loading' = FALSE
  /\ pc' = "done"
  /\ UNCHANGED <<edrCsv, vulnCsv, edrResult, vulnResult, edrData, vulnData,
                 edrKpis, vulnKpis, failed, errorLog, fetches, calcs>>

\* Mutant of Catch: the error is logged but loading is left as it is.
Catch_KeepsLoading ==
  /\ pc = "catch"
  /\ errorLog' = errorLog + 1
  /\ pc' = "done"
  /\ UNCHANGED <<edrCsv, vulnCsv, edrResult, vulnResult, edrData, vulnData,
                 edrKpis, vulnKpis, loading, failed, fetches, calcs>>

\* catch (error) { console.error(...); setLoading(false); }
Catch ==
  /\ pc = "catch"
  /\ errorLog' = errorLog + 1
  /\ loading' = FALSE
  /\ pc' = "done"
  /\ UNCHANGED <<edrCsv, vulnCsv, edrResult, vulnResult, edrData, vulnData,
                 edrKpis, vulnKpis, failed, fetches, calcs>>

Next ==
  \/ Mount
  \/ EdrFetchResolve
  \/ EdrFetchReject
  \/ EdrTextResolve
  \/ EdrTextReject
  \/ VulnFetchResolve
  \/ VulnFetchReject
  \/ VulnTextResolve
  \/ VulnTextReject
  \/ SetData
  \/ CalcEdr
  \/ CalcVuln
  \/ SetLoadingDone
  \/ Catch

\* The load cycle of one dashboard session.
Spec == Init /\ [][Next]_vars

\* A settled promise's continuation is run by the event loop: no enabled
\* step of the load cycle is postponed forever.
FairSpec == Spec /\ WF_vars(Next)

\* The alert aggregator on every file of at most MaxRecords rows of EdrRows:
\* the state in which both files are parsed and the data is set.
InitEdr ==
  \E edrFile \in Files(EdrRows) :
    /\ pc = "calcEdr"
    /\ edrCsv = edrFile
    /\ vulnCsv = <<>>
    /\ edrResult = PapaParse(edrFile)
    /\ vulnResult = <<>>
    /\ edrData = PapaParse(edrFile)
    /\ vulnData = <<>>
    /\ edrKpis = DefaultEdrKpis
    /\ vulnKpis = DefaultVulnKpis
    /\ loading = TRUE
    /\ failed = "none"
    /\ errorLog = 0
    /\ fetches = [edr |-> 1, vuln |-> 1]
    /\ calcs = [edr |-> 0, vuln |-> 0]

NextEdr == CalcEdr

SpecEdr == InitEdr /\ [][NextEdr]_vars

\* The vulnerability aggregator on every file of at most MaxRecords rows of
\* VulnRows: the state in which the alert summary of an empty file is set.
InitVuln ==
  \E vulnFile \in Files(VulnRows) :
    /\ pc = "calcVuln"
    /\ edrCsv = <<>>
    /\ vulnCsv = vulnFile
    /\ edrResult = <<>>
    /\ vulnResult = PapaParse(vulnFile)
    /\ edrData = <<>>
    /\ vulnData = PapaParse(vulnFile)
    /\ edrKpis = calculateEdrKpis(<<>>)
    /\ vulnKpis = DefaultVulnKpis
    /\ loading = TRUE
    /\ failed = "none"
    /\ errorLog = 0
    /\ fetches = [edr |-> 1, vuln |-> 1]
    /\ calcs = [edr |-> 1, vuln |-> 0]

NextVuln == CalcVuln

SpecVuln == InitVuln /\ [][NextVuln]_vars

(***************************************************************************)
(* Claims.                                                                 *)
(***************************************************************************)
\* A rate that is the number 0 (not NaN, not infinite).
IsZero(r) == IsFinite(r) /\ r.n = 0

EdrComputed == calcs.edr >= 1

VulnComputed == calcs.vuln >= 1

\* A field that holds a value (the cell was not blank).
Present(v) == v.t # "null"

RECURSIVE SumPercentages(_)
\* Numerator of the sum of the entries' percentages over their common
\* denominator (the total).
SumPercentages(entries) ==
  IF entries = {} THEN 0
  ELSE LET e == CHOOSE x \in entries : TRUE
       IN e.percentage.n + SumPercentages(entries \ {e})

\* The percentages of a breakdown are numbers and add up to 100.
SumsTo100(entries, total) ==
  /\ \A e \in entries : IsFinite(e.percentage) /\ e.percentage.d = total
  /\ SumPercentages(entries) = 100 * total

\* C1: on the empty record list each aggregator yields total 0 and every
\* rate exactly 0 (never NaN or infinite).
C1_EmptyListRatesAreZero ==
  /\ (EdrComputed /\ edrResult = <<>>) =>
       /\ edrKpis.totalAlerts = 0
       /\ IsZero(edrKpis.criticalRate)
       /\ IsZero(edrKpis.iocDetectionRate)
       /\ IsZero(edrKpis.suspiciousConnectionRate)
  /\ (VulnComputed /\ vulnResult = <<>>) =>
       /\ vulnKpis.totalVulnerabilities = 0
       /\ IsZero(vulnKpis.remediationRate)
       /\ IsZero(vulnKpis.avgRemediationTime)
       /\ IsZero(vulnKpis.criticalVulnerabilityRate)
       /\ IsZero(vulnKpis.patchesInTimeRate)

\* C2: for every non-empty record list the percentages of each of the six
\* breakdowns sum to 100.
C2_BreakdownsSumTo100 ==
  /\ (EdrComputed /\ edrResult # <<>>) =>
       /\ SumsTo100(edrKpis.severityData, edrKpis.totalAlerts)
       /\ SumsTo100(edrKpis.alertTypeData, edrKpis.totalAlerts)
       /\ SumsTo100(edrKpis.statusData, edrKpis.totalAlerts)
  /\ (VulnComputed /\ vulnResult # <<>>) =>
       /\ SumsTo100(vulnKpis.severityData, vulnKpis.totalVulnerabilities)
       /\ SumsTo100(vulnKpis.statusData, vulnKpis.totalVulnerabilities)
       /\ SumsTo100(vulnKpis.sourceData, vulnKpis.totalVulnerabilities)

\* Indices of the records with status "Resolved" and both dates present.
ResolvedWithDates ==
  {i \in 1..Len(vulnResult) :
     /\ vulnResult[i].Status = Str("Resolved")
     /\ Present(vulnResult[i].DetectionDate)
     /\ Present(vulnResult[i].PatchAppliedDate)}

\* Hours between detection and patch of record i.
ElapsedHours(i) ==
  DateGetTime(vulnResult[i].PatchAppliedDate) - DateGetTime(vulnResult[i].DetectionDate)

\* Record i is on time: no timeframe, or elapsed days <= its timeframe.
OnTime(i) ==
  \/ ~Present(vulnResult[i].RecommendedTimeframe)
  \/ ElapsedHours(i) <= vulnResult[i].RecommendedTimeframe.n * HoursPerDay

\* C3: patchesInTimeRate is 100 * onTime / subset over the resolved records
\* with both dates, where only an absent timeframe is unbounded (a timeframe
\* of 0 is a bound like any other); 0 when the subset is empty.
C3_OnTimeRate ==
  VulnComputed =>
    IF ResolvedWithDates = {} THEN IsZero(vulnKpis.patchesInTimeRate)
    ELSE NumEq(vulnKpis.patchesInTimeRate,
               Percent(Cardinality({i \in ResolvedWithDates : OnTime(i)}),
                       Cardinality(ResolvedWithDates)))

\* The assets with at least one critical record, and those with at least one
\* record that is critical and not patchable.
AssetIds == {vulnResult[i].AssetID : i \in 1..Len(vulnResult)}

CriticalAssetIds ==
  {a \in AssetIds : \E i \in 1..Len(vulnResult) :
     vulnResult[i].AssetID = a /\ vulnResult[i].IsCritical = Str("Oui")}

ExposedAssetIds ==
  {a \in AssetIds : \E i \in 1..Len(vulnResult) :
     /\ vulnResult[i].AssetID = a
     /\ vulnResult[i].IsCritical = Str("Oui")
     /\ vulnResult[i].IsPatchable = Str("Non")}

\* C4: criticalVulnerabilityRate is 100 * (distinct assets with a critical,
\* unpatchable record) / (distinct assets with a critical record), 0 when no
\* record is critical; an asset counts once, non-critical records never count.
C4_CriticalAssetRate ==
  VulnComputed =>
    IF CriticalAssetIds = {} THEN IsZero(vulnKpis.criticalVulnerabilityRate)
    ELSE NumEq(vulnKpis.criticalVulnerabilityRate,
               Percent(Cardinality(ExposedAssetIds), Cardinality(CriticalAssetIds)))

\* One asset with a critical unpatchable record, a second critical record and
\* a non-critical record: the rate is 100.
C4_Witness ==
  /\ VulnComputed
  /\ Len(vulnResult) = 3
  /\ Cardinality(AssetIds) = 1
  /\ \E i, j, k \in 1..3 :
       /\ i # j
       /\ vulnResult[i].IsCritical = Str("Oui") /\ vulnResult[i].IsPatchable = Str("Non")
       /\ vulnResult[j].IsCritical = Str("Oui") /\ vulnResult[j].IsPatchable = Str("Oui")
       /\ vulnResult[k].IsCritical = Str("Non")
  /\ NumEq(vulnKpis.criticalVulnerabilityRate, [n |-> 100, d |-> 1])

RECURSIVE SumElapsedHours(_)
\* Sum of ElapsedHours over a set of record indices.
SumElapsedHours(S) ==
  IF S = {} THEN 0
  ELSE LET i == CHOOSE x \in S : TRUE
       IN ElapsedHours(i) + SumElapsedHours(S \ {i})

\* C5: avgRemediationTime is the sum of (patch - detection) in days over the
\* resolved records with both dates, divided by their number; 0 when there
\* is none.
C5_AvgRemediationTime ==
  VulnComputed =>
    IF ResolvedWithDates = {} THEN IsZero(vulnKpis.avgRemediationTime)
    ELSE NumEq(vulnKpis.avgRemediationTime,
               [n |-> SumElapsedHours(ResolvedWithDates),
                d |-> HoursPerDay * Cardinality(ResolvedWithDates)])

\* Deltas of 2 and 4 days average to 3 days, beside a resolved record that
\* lacks a date.
C5_Witness ==
  /\ VulnComputed
  /\ Len(vulnResult) = 3
  /\ {ElapsedHours(i) : i \in ResolvedWithDates} = {2 * HoursPerDay, 4 * HoursPerDay}
  /\ Cardinality(ResolvedWithDates) = 2
  /\ \E i \in 1..3 : vulnResult[i].Status = Str("Resolved") /\ i \notin ResolvedWithDates
  /\ NumEq(vulnKpis.avgRemediationTime, [n |-> 3, d |-> 1])

\* The parsed rows whose severity is "Critical".
CriticalRecords == {r \in {PapaParse(<<row>>)[1] : row \in EdrRows} : r.Severity = Str("Critical")}

\* C6: appending a record of severity "Critical" to any record list,
\* the empty one included, yields a criticalRate that is not lower.
C6_CriticalRateMonotonic ==
  EdrComputed =>
    \A r \in CriticalRecords :
      ~NumLess(criticalRate(Append(edrResult, r)), edrKpis.criticalRate)

\* One critical record of two (50%) and a strictly higher rate once a
\* critical record is appended.
C6_Witness ==
  /\ EdrComputed
  /\ NumEq(edrKpis.criticalRate, [n |-> 50, d |-> 1])
  /\ \E r \in CriticalRecords :
       NumLess(edrKpis.criticalRate, criticalRate(Append(edrResult, r)))

\* Indices of the records of alert type "Network Connection".
NetworkIndices ==
  {i \in 1..Len(edrResult) : edrResult[i].AlertType = Str("Network Connection")}

\* C7: suspiciousConnectionRate is 100 * (Network Connection records of
\* severity Critical or High) / (Network Connection records), 0 when there is
\* none, and the records of other alert types do not change it.
C7_SuspiciousConnectionRate ==
  EdrComputed =>
    /\ IF NetworkIndices = {} THEN IsZero(edrKpis.suspiciousConnectionRate)
       ELSE NumEq(edrKpis.suspiciousConnectionRate,
                  Percent(Cardinality({i \in NetworkIndices :
                                         edrResult[i].Severity \in {Str("Critical"), Str("High")}}),
                          Cardinality(NetworkIndices)))
    /\ LET only == SelectSeq(edrResult, LAMBDA a : a.AlertType = Str("Network Connection"))
       IN NumEq(suspiciousConnectionRate(only), edrKpis.suspiciousConnectionRate)

\* Two Network Connection records, one Critical and one Low, beside a record
\* of another alert type: the rate is 50.
C7_Witness ==
  /\ EdrComputed
  /\ Cardinality(NetworkIndices) = 2
  /\ Len(edrResult) = 3
  /\ NumEq(edrKpis.suspiciousConnectionRate, [n |-> 50, d |-> 1])

\* C8: for a non-empty list iocDetectionRate is 100 * (records whose iocType
\* is present and neither "" nor "None") / total; every other value counts.
C8_IocDetectionRate ==
  (EdrComputed /\ edrResult # <<>>) =>
    NumEq(edrKpis.iocDetectionRate,
          Percent(Cardinality({i \in 1..Len(edrResult) :
                                 /\ Present(edrResult[i].IOCType)
                                 /\ edrResult[i].IOCType # Str("")
                                 /\ edrResult[i].IOCType # Str("None")}),
                  Len(edrResult)))

\* C9: a failed load of either source is caught: the summaries keep their
\* all-zero defaults, loading becomes false and stays false.
C9_FailedLoadFallsThrough ==
  /\ [](failed # "none" => edrKpis = DefaultEdrKpis /\ vulnKpis = DefaultVulnKpis)
  /\ [](failed # "none" => <>(~loading /\ pc = "done" /\ errorLog = 1))
  /\ [][(failed # "none" /\ ~loading) => ~loading']_vars

\* The vulnerability load failed after the alert file was read and parsed:
\* the dashboard is out of the loading state with default summaries.
C9_Witness ==
  /\ failed = "vuln"
  /\ edrResult # <<>>
  /\ ~loading
  /\ edrKpis = DefaultEdrKpis

\* C10: each dataset is fetched once and each summary computed at most once
\* (exactly once when both loads succeed); a summary once set never changes,
\* and loading goes from true to false once and never back.
C10_LoadedAndComputedOnce ==
  /\ [](/\ fetches.edr <= 1 /\ fetches.vuln <= 1
        /\ calcs.edr <= 1 /\ calcs.vuln <= 1
        /\ (pc = "done" /\ failed = "none") =>
             (fetches.edr = 1 /\ fetches.vuln = 1 /\ calcs.edr = 1 /\ calcs.vuln = 1))
  /\ [][/\ EdrComputed => edrKpis' = edrKpis
        /\ VulnComputed => vulnKpis' = vulnKpis
        /\ ~loading => ~loading']_vars

\* Both loads succeeded: both summaries are computed from non-empty data
\* and the dashboard has left the loading state.
C10_Witness ==
  /\ pc = "done"
  /\ failed = "none"
  /\ ~loading
  /\ calcs = [edr |-> 1, vuln |-> 1]
  /\ edrKpis.totalAlerts > 0
  /\ vulnKpis.totalVulnerabilities > 0

RECURSIVE SumValues(_)
\* Sum of the entries' counts (a count that is no number adds nothing).
SumValues(entries) ==
  IF entries = {} THEN 0
  ELSE LET e == CHOOSE x \in entries : TRUE
       IN (IF e.value.k = "number" THEN e.value.v ELSE 0) + SumValues(entries \ {e})

\* Every record of data is counted in the group named after its field value,
\* that group counts exactly the records holding the same value (a blank
\* field being a value of its own), and the counts add up to Len(data).
GroupsCoverRecords(entries, data, field) ==
  /\ \A i \in 1..Len(data) :
       \E e \in entries :
         /\ e.name = ToPropertyKey(data[i][field])
         /\ e.value = [k |-> "number",
                       v |-> Cardinality({j \in 1..Len(data) :
                                            data[j][field] = data[i][field]})]
  /\ SumValues(entries) = Len(data)

\* C11: grouping excludes no record: in each breakdown the group counts add
\* up to the number of records, each record is counted in exactly the group
\* keyed by its field value, and blank fields form a group of their own.
C11_GroupingExcludesNoRecord ==
  /\ EdrComputed =>
       /\ GroupsCoverRecords(edrKpis.severityData, edrResult, "Severity")
       /\ GroupsCoverRecords(edrKpis.alertTypeData, edrResult, "AlertType")
       /\ GroupsCoverRecords(edrKpis.statusData, edrResult, "Status")
  /\ VulnComputed =>
       /\ GroupsCoverRecords(vulnKpis.severityData, vulnResult, "Severity")
       /\ GroupsCoverRecords(vulnKpis.statusData, vulnResult, "Status")
       /\ GroupsCoverRecords(vulnKpis.sourceData, vulnResult, "DetectionSource")

\* The read and parse of edr_data.csv has completed: control is past
\* `await edrResponse.text()` and the parse, and did not leave by a rejection
\* of the alert load.
EdrReadDone ==
  /\ pc \notin {"mounted", "awaitEdrFetch", "awaitEdrText"}
  /\ failed # "edr"
  /\ edrResult = PapaParse(edrCsv)

\* The read and parse of vulnerabilities_data.csv has completed.
VulnReadDone ==
  /\ pc \in {"setData", "calcEdr", "calcVuln", "setLoading", "done"}
  /\ failed = "none"
  /\ vulnResult = PapaParse(vulnCsv)

\* C12: an aggregator runs only after the read and parse of its own dataset
\* has completed (its summary is that of the whole file), and loading is
\* false only after both summaries are set or after a failure was caught.
C12_LoadOrdering ==
  /\ EdrComputed =>
       EdrReadDone /\ edrKpis = calculateEdrKpis(PapaParse(edrCsv))
  /\ VulnComputed =>
       VulnReadDone /\ vulnKpis = calculateVulnKpis(PapaParse(vulnCsv))
  /\ ~loading =>
       \/ failed = "none" /\ EdrComputed /\ VulnComputed /\ errorLog = 0
       \/ failed # "none" /\ errorLog = 1

\* Both files had rows and were read: the dashboard is out of the loading
\* state with the summaries of the two whole files.
C12_Witness ==
  /\ ~loading
  /\ failed = "none"
  /\ Len(edrCsv) >= 2
  /\ Len(vulnCsv) >= 2
  /\ edrKpis = calculateEdrKpis(PapaParse(edrCsv))
  /\ vulnKpis = calculateVulnKpis(PapaParse(vulnCsv))
  /\ edrKpis # calculateEdrKpis(<<>>)
  /\ vulnKpis # calculateVulnKpis(<<>>)

\* C13: the vulnerability fetch is issued only after the alert file was read
\* and parsed, both aggregators run only after both reads succeeded, the
\* alert summary differs from its defaults only if the vulnerability load
\* succeeded, and a failed vulnerability load leaves it at its defaults
\* although the alert data was loaded.
C13_AllOrNothingLoad ==
  /\ fetches.vuln >= 1 => EdrReadDone
  /\ (EdrComputed \/ VulnComputed) => (EdrReadDone /\ VulnReadDone)
  /\ edrKpis # DefaultEdrKpis => VulnReadDone
  /\ failed = "vuln" =>
       /\ edrResult = PapaParse(edrCsv)
       /\ edrKpis = DefaultEdrKpis
       /\ vulnKpis = DefaultVulnKpis

\* The alert file (two rows or more) was loaded and the vulnerability load
\* failed: the session ended with the alert summary still at its defaults.
C13_Witness ==
  /\ pc = "done"
  /\ failed = "vuln"
  /\ fetches = [edr |-> 1, vuln |-> 1]
  /\ Len(edrResult) >= 2
  /\ calculateEdrKpis(edrResult) # DefaultEdrKpis
  /\ edrKpis = DefaultEdrKpis

====
